---- MODULE Spec2Model ----
(***************************************************************************)
(* A model of scripts/hf_grass.py: the Hugging Face activity heatmap       *)
(* generator.  One run is parse_args -> main's validation ->               *)
(* collect_activity (the pagination loop) -> aggregate_stats ->            *)
(* render_svg.                                                             *)
(*                                                                         *)
(* Time is counted in whole hours since midnight of day 0, in UTC; a       *)
(* calendar date is its day number (Python's date.toordinal()), so that    *)
(* date.weekday() = (ordinal + 6) % 7 with Monday = 0.                     *)
(***************************************************************************)
EXTENDS Integers, Sequences, FiniteSets, TLC

VARIABLES
    pc,            \* position of the run: "parse_args", "main", "collect",
                   \* "aggregate", "render", "done", "exit"
    outcome,       \* "running", "ok", "usage" (exit status 2), "raised"
    reported,      \* the message reported on the way out, "" while there is none
    args,          \* the command line, as argparse reads it
    now,           \* the clock, in hours (UTC)
    today,         \* main: today in the zone UTC+tz_offset
    start_date,    \* main: today - (days - 1)
    source,        \* the feed: the records the server holds, newest first
    pos,           \* the feed: how many records of source were served so far
    delivered,     \* every record served so far, in the order served
    resp,          \* the last page response
    requests,      \* the page requests issued so far
    earliest_date, \* collect_activity: the local earliest_date
    items,         \* collect_activity: items
    seen,          \* collect_activity: seen
    seen_cursors,  \* collect_activity: seen_cursors
    cursor,        \* collect_activity: cursor
    stop,          \* why the pagination loop ended, "" while it runs
    stats,         \* aggregate_stats: the returned mapping
    cells,         \* render_svg: the <rect> cells emitted, in order
    binning        \* color_index: its arguments and its result

vars == <<pc, outcome, reported, args, now, today, start_date, source, pos,
          delivered, resp, requests, earliest_date, items, seen,
          seen_cursors, cursor, stop, stats, cells, binning>>

(***************************************************************************)
(* Bounds of the model.                                                    *)
(***************************************************************************)
MaxSource == 2       \* records the feed holds
MaxPage == 2         \* records in one page
MaxRequests == 3     \* largest --max-requests tried
MaxDays == 2         \* largest --days tried in a whole run
MaxEvents == 3       \* length of the lists aggregate_stats is tried on
MaxGridDays == 10    \* largest window render_svg's grid is tried on
MaxCount == 6        \* largest count and max_count color_index is tried on
MaxLevels == 5       \* largest palette length color_index is tried on
MaxStatDays == 2     \* DayStats in the mappings render_svg is tried on

Min(a, b) == IF a < b THEN a ELSE b
Max(a, b) == IF a > b THEN a ELSE b

\* The largest member of a finite set of integers, or dflt when it is empty:
\* Python's max(..., default=0).
SetMax(S, dflt) == IF S = {} THEN dflt ELSE CHOOSE x \in S : \A y \in S : y <= x

SeqsUpTo(S, n) == UNION {[1..k -> S] : k \in 0..n}

(***************************************************************************)
(* Module constants.                                                       *)
(***************************************************************************)
DEFAULT_COLORS == <<"#ebedf0", "#ffe2b3", "#ffc266", "#ff9d00", "#ff7a00">>
REACTION_COLORS == <<"#ebedf0", "#ffd6d6", "#ffb3b3", "#ff7a7a", "#ff4d4d">>
GITHUB_DARK_COLORS == <<"#161b22", "#0e4429", "#006d32", "#26a641", "#39d353">>
GITHUB_DARK_REACTION_COLORS ==
    <<"#161b22", "#3b1d1f", "#5b1e23", "#8b1d26", "#f85149">>

THEMES ==
    [t \in {"light", "github-dark"} |->
        IF t = "light"
        THEN [colors |-> DEFAULT_COLORS, reaction_colors |-> REACTION_COLORS]
        ELSE [colors |-> GITHUB_DARK_COLORS,
              reaction_colors |-> GITHUB_DARK_REACTION_COLORS]]

REACTION_TYPES == {"upvote", "like"}
VALID_ACTIVITY_TYPES == {"all", "discussion", "upvote", "like"}
WEEK_START_CHOICES == {"sunday", "monday"}

(***************************************************************************)
(* Timestamps.  A "time" field is absent (form "none"), a string that is   *)
(* not ISO 8601 (form "bad"), or an ISO 8601 string: a wall-clock hour     *)
(* followed by "Z", by nothing (form "naive") or by an offset of off       *)
(* hours.                                                                  *)
(***************************************************************************)
NoTime == [form |-> "none", wall |-> 0, off |-> 0]
BadTime == [form |-> "bad", wall |-> 0, off |-> 0]
Zulu(h) == [form |-> "Z", wall |-> h, off |-> 0]
Naive(h) == [form |-> "naive", wall |-> h, off |-> 0]
Offset(h, o) == [form |-> "offset", wall |-> h, off |-> o]

\* dt.datetime.fromisoformat raises ValueError.
ParseFails(value) == value.form = "bad"

\* The instant a valid timestamp names, in UTC hours: "Z" becomes "+00:00",
\* a timestamp without a zone is taken as UTC, one with an offset is
\* wall - offset.
UtcHour(value) ==
    IF value.form = "offset" THEN value.wall - value.off ELSE value.wall

\* The calendar date of an instant in the fixed zone UTC+tz.
LocalDate(hour, tz) == (hour + tz) \div 24

parse_time(value, tz) == LocalDate(UtcHour(value), tz)

(***************************************************************************)
(* Feed records.  eventId 0 stands for an absent (or falsy) eventId, type  *)
(* "" for an absent type; isdict is FALSE for a page element that is not a *)
(* JSON object.                                                            *)
(***************************************************************************)
Entry(id, t, ty, repo) ==
    [isdict |-> TRUE, eventId |-> id, time |-> t, type |-> ty,
     repoId |-> repo, targetType |-> "model"]

NonDict ==
    [isdict |-> FALSE, eventId |-> 0, time |-> NoTime, type |-> "",
     repoId |-> "", targetType |-> ""]

\* The key is "event:<eventId>" when eventId is truthy, and otherwise the four
\* fields joined by "|"; the two shapes are kept apart by kind.
dedupe_key(item) ==
    IF item.eventId # 0
    THEN [kind |-> "event", eventId |-> item.eventId, time |-> NoTime,
          type |-> "", repoId |-> "", targetType |-> ""]
    ELSE [kind |-> "fields", eventId |-> 0, time |-> item.time,
          type |-> item.type, repoId |-> item.repoId,
          targetType |-> item.targetType]

(***************************************************************************)
(* collect_activity.                                                       *)
(***************************************************************************)
NoCursor == 0

\* What a response's "cursor" may hold: none, a cursor an earlier page gave,
\* or a new one.  Cursors are opaque, so the new one is always the next
\* number.
Cursors(sc) == 0..(Cardinality(sc) + 1)

\* The loop over one page: an element that is not a dict is skipped, a key
\* already seen is skipped, any other is recorded and appended.
RECURSIVE AddEntries(_, _, _)
AddEntries(batch, sn, its) ==
    IF batch = <<>>
    THEN [seen |-> sn, items |-> its]
    ELSE LET entry == Head(batch)
             key == dedupe_key(entry)
         IN  IF ~entry.isdict
             THEN AddEntries(Tail(batch), sn, its)
             ELSE IF key \in sn
             THEN AddEntries(Tail(batch), sn, its)
             ELSE AddEntries(Tail(batch), sn \cup {key}, Append(its, entry))

ProcessBatchPerPage(batch, sn, its) == AddEntries(batch, {}, its)

ProcessBatch(batch, sn, its) == AddEntries(batch, sn, its)

BreakOnCursorAbsentOnly(c, sc) == c = NoCursor

\* "if not cursor or cursor in seen_cursors: break"
BreakOnCursor(c, sc) == c = NoCursor \/ c \in sc

LoopOneMore(n, max_requests) == n <= max_requests

\* "for _ in range(max_requests)": whether an iteration is left after n.
LoopHasNext(n, max_requests) == n < max_requests

\* What the feed may answer: a slice of source that starts no later than
\* right after the records already served (pages may overlap, none is
\* skipped), of at most MaxPage records.
Page(s, n) == SubSeq(source, s, Min(s + n - 1, Len(source)))

Leave(why) ==
    /\ stop' = why
    /\ pc' = "aggregate"
    /\ UNCHANGED <<outcome, reported>>

Raise(what) ==
    /\ stop' = "raised"
    /\ pc' = "exit"
    /\ outcome' = "raised"
    /\ reported' = what

\* One iteration of the loop: the request, the page's records, the cursor
\* check, the date check.
CollectPage(s, n, c) ==
    /\ pc = "collect"
    /\ LoopHasNext(requests, args.max_requests)
    /\ LET batch == Page(s, n)
           done == ProcessBatch(batch, seen, items)
           last == batch[Len(batch)]
       IN  /\ requests' = requests + 1
           /\ resp' = [batch |-> batch, cursor |-> c]
           /\ pos' = Max(pos, s + Len(batch) - 1)
           /\ delivered' = delivered \o batch
           /\ IF batch = <<>>
              THEN /\ Leave("empty")
                   /\ UNCHANGED <<items, seen, cursor, seen_cursors>>
              ELSE /\ items' = done.items
                   /\ seen' = done.seen
                   /\ cursor' = c
                   /\ IF BreakOnCursor(c, seen_cursors)
                      THEN /\ Leave("cursor")
                           /\ UNCHANGED seen_cursors
                      ELSE /\ seen_cursors' = seen_cursors \cup {c}
                           /\ IF ~last.isdict
                              THEN Raise("AttributeError")
                              ELSE IF last.time = NoTime
                              THEN UNCHANGED <<pc, outcome, reported, stop>>
                              ELSE IF ParseFails(last.time)
                              THEN Raise("ValueError")
                              ELSE IF parse_time(last.time, args.tz_offset)
                                          < earliest_date
                              THEN Leave("date")
                              ELSE UNCHANGED <<pc, outcome, reported, stop>>
    /\ UNCHANGED <<args, now, today, start_date, source, earliest_date,
                   stats, cells, binning>>

\* urlopen or json.loads raises: the error leaves collect_activity and main.
FetchFails ==
    /\ pc = "collect"
    /\ LoopHasNext(requests, args.max_requests)
    /\ requests' = requests + 1
    /\ Raise("URLError")
    /\ UNCHANGED <<args, now, today, start_date, source, pos, delivered,
                   resp, earliest_date, items, seen, seen_cursors, cursor,
                   stats, cells, binning>>

\* range(max_requests) is used up: "return items".
CollectExhausted ==
    /\ pc = "collect"
    /\ ~LoopHasNext(requests, args.max_requests)
    /\ Leave("cap")
    /\ UNCHANGED <<args, now, today, start_date, source, pos, delivered,
                   resp, requests, earliest_date, items, seen, seen_cursors,
                   cursor, stats, cells, binning>>

Collect ==
    \/ \E s \in 1..(pos + 1), n \in 0..MaxPage, c \in Cursors(seen_cursors) :
           CollectPage(s, n, c)
    \/ FetchFails
    \/ CollectExhausted

(***************************************************************************)
(* parse_args and main, up to the call of collect_activity.                *)
(***************************************************************************)
Exit(status, message) ==
    /\ pc' = "exit"
    /\ outcome' = status
    /\ reported' = message

\* argparse: a value outside an option's choices ends the run with status 2
\* before main sees the arguments.
ChoicesAccept(a) ==
    /\ a.activity_type \in VALID_ACTIVITY_TYPES
    /\ a.week_start \in WEEK_START_CHOICES
    /\ a.theme \in DOMAIN THEMES

ParseArgs ==
    /\ pc = "parse_args"
    /\ IF ChoicesAccept(args)
       THEN /\ pc' = "main"
            /\ UNCHANGED <<outcome, reported>>
       ELSE Exit("usage", "argparse: invalid choice")
    /\ UNCHANGED <<args, now, today, start_date, source, pos, delivered,
                   resp, requests, earliest_date, items, seen, seen_cursors,
                   cursor, stop, stats, cells, binning>>

DaysUnchecked(days) == TRUE

\* "if args.days < 1: ... return 2"
DaysValid(days) == days >= 1

\* dt.timezone accepts offsets strictly between -24 and 24 hours.
TimezoneValid(tz_offset) == -24 < tz_offset /\ tz_offset < 24

\* main, from the user check to start_date.
MainStart ==
    /\ pc = "main"
    /\ IF args.user = ""
       THEN /\ Exit("usage", "Missing --user")
            /\ UNCHANGED <<today, start_date>>
       ELSE IF ~DaysValid(args.days)
       THEN /\ Exit("usage", "--days must be >= 1")
            /\ UNCHANGED <<today, start_date>>
       ELSE IF args.activity_type \notin VALID_ACTIVITY_TYPES
       THEN /\ Exit("usage", "Unsupported activity type")
            /\ UNCHANGED <<today, start_date>>
       ELSE IF ~TimezoneValid(args.tz_offset)
       THEN /\ Exit("raised", "ValueError")
            /\ UNCHANGED <<today, start_date>>
       ELSE /\ today' = LocalDate(now, args.tz_offset)
            /\ start_date' = LocalDate(now, args.tz_offset) - (args.days - 1)
            /\ pc' = "call_collect"
            /\ UNCHANGED <<outcome, reported>>
    /\ UNCHANGED <<args, now, source, pos, delivered, resp, requests,
                   earliest_date, items, seen, seen_cursors, cursor, stop,
                   stats, cells, binning>>

\* collect_activity's own window start: today is the UTC date.
EarliestDate(hour, tz, days) == LocalDate(hour, 0) - (days - 1)

\* What the feed may hold when a whole run is modelled.
RunEntries ==
    {Entry(0, Zulu(24 * 10 + 1), "discussion", "r1"),
     Entry(0, Offset(24 * 10 + 5, 9), "like", "r1"),
     Entry(0, Naive(24 * 10 - 30), "upvote", "r1"),
     Entry(0, BadTime, "like", "r1")}

\* The clock may have moved on between main's reading and this one.
Elapsed == {0, 1}

\* collect_activity, from its first line to the loop.
CollectStart ==
    /\ pc = "call_collect"
    /\ \E e \in Elapsed : now' = now + e
    /\ earliest_date' = EarliestDate(now', args.tz_offset, args.days)
    /\ items' = <<>>
    /\ seen' = {}
    /\ seen_cursors' = {}
    /\ cursor' = NoCursor
    /\ pc' = "collect"
    /\ UNCHANGED <<outcome, reported, args, today, start_date, source, pos,
                   delivered, resp, requests, stop, stats, cells, binning>>

(***************************************************************************)
(* aggregate_stats.                                                        *)
(***************************************************************************)
NoStats == [d \in {} |-> [count |-> 0, types |-> {}]]

\* One more event of type ty on date d.
Counted(st, d, ty) ==
    LET old == IF d \in DOMAIN st THEN st[d] ELSE [count |-> 0, types |-> {}]
        new == [count |-> old.count + 1,
                types |-> IF ty = "" THEN old.types ELSE old.types \cup {ty}]
    IN  [x \in DOMAIN st \cup {d} |-> IF x = d THEN new ELSE st[x]]

InWindowOpenEnd(d, lo, hi) == lo <= d /\ d < hi

\* "if date_value < start_date or date_value > end_date: continue"
InWindow(d, lo, hi) == ~(d < lo \/ d > hi)

\* The loop of aggregate_stats: [raised, stats].
RECURSIVE FoldStats(_, _, _, _, _)
FoldStats(its, st, lo, hi, tz) ==
    IF its = <<>>
    THEN [raised |-> FALSE, stats |-> st]
    ELSE LET entry == Head(its)
         IN  IF entry.time = NoTime
             THEN FoldStats(Tail(its), st, lo, hi, tz)
             ELSE IF ParseFails(entry.time)
             THEN [raised |-> TRUE, stats |-> st]
             ELSE IF ~InWindow(parse_time(entry.time, tz), lo, hi)
             THEN FoldStats(Tail(its), st, lo, hi, tz)
             ELSE FoldStats(Tail(its),
                            Counted(st, parse_time(entry.time, tz), entry.type),
                            lo, hi, tz)

aggregate_stats(its, lo, hi, tz) == FoldStats(its, NoStats, lo, hi, tz)

\* main: "stats = aggregate_stats(items, start_date, today, tz)"
Aggregate ==
    /\ pc = "aggregate"
    /\ LET r == aggregate_stats(items, start_date, today, args.tz_offset)
       IN  IF r.raised
           THEN /\ Exit("raised", "ValueError")
                /\ UNCHANGED stats
           ELSE /\ stats' = r.stats
                /\ pc' = "render"
                /\ UNCHANGED <<outcome, reported>>
    /\ UNCHANGED <<args, now, today, start_date, source, pos, delivered,
                   resp, requests, earliest_date, items, seen, seen_cursors,
                   cursor, stop, cells, binning>>

(***************************************************************************)
(* grid_start_date, color_index, render_svg.                               *)
(***************************************************************************)
\* date.weekday(): Monday is 0, and day number 1 is a Monday.
weekday(d) == (d + 6) % 7

day_index_monday_only(d, week_start) == weekday(d)

\* render_svg's day_index, and the offset grid_start_date computes.
day_index(d, week_start) ==
    IF week_start = "sunday" THEN (weekday(d) + 1) % 7 ELSE weekday(d)

grid_start_date(start, week_start) == start - day_index(start, week_start)

\* math.ceil(a / b) for b > 0.
Ceil(a, b) == (a + b - 1) \div b

color_index_floor(count, max_count, levels) ==
    IF count <= 0 \/ max_count <= 0
    THEN 0
    ELSE Min(levels - 1, (count * (levels - 1)) \div max_count)

color_index(count, max_count, levels) ==
    IF count <= 0 \/ max_count <= 0
    THEN 0
    ELSE Max(1, Min(levels - 1, Ceil(count * (levels - 1), max_count)))

is_reaction_any(stat) == stat.types \cap REACTION_TYPES # {}

is_reaction_only(stat) == stat.types # {} /\ stat.types \subseteq REACTION_TYPES

max_default(st) ==
    SetMax({st[d].count : d \in {x \in DOMAIN st : ~is_reaction_only(st[x])}}, 0)

max_reaction(st) ==
    SetMax({st[d].count : d \in {x \in DOMAIN st : is_reaction_only(st[x])}}, 0)

\* The body of render_svg's loop for one day_offset.
Cell(st, start, end, week_start, colors, reaction_colors, day_offset) ==
    LET current == grid_start_date(start, week_start) + day_offset
        has == current \in DOMAIN st /\ start <= current /\ current <= end
        count == IF has THEN st[current].count ELSE 0
        reaction_only == IF has THEN is_reaction_only(st[current]) ELSE FALSE
        palette == IF reaction_only THEN reaction_colors ELSE colors
        max_count == IF reaction_only THEN max_reaction(st) ELSE max_default(st)
        idx == color_index(count, max_count, Len(palette))
    IN  [date |-> current,
         week |-> day_offset \div 7,
         row |-> day_index(current, week_start),
         count |-> count,
         reaction_only |-> reaction_only,
         idx |-> idx,
         fill |-> palette[idx + 1]]

total_days(start, end, week_start) ==
    end - grid_start_date(start, week_start) + 1

weeks(start, end, week_start) == Ceil(total_days(start, end, week_start), 7)

\* The three assertions of render_svg.
RenderAsserts(start, end, week_start, colors, reaction_colors) ==
    /\ weeks(start, end, week_start) > 0
    /\ Len(colors) >= 2
    /\ Len(reaction_colors) >= 2

render_svg(st, start, end, week_start, colors, reaction_colors) ==
    [i \in 1..total_days(start, end, week_start) |->
        Cell(st, start, end, week_start, colors, reaction_colors, i - 1)]

\* main, from the theme lookup to the end.
Render ==
    /\ pc = "render"
    /\ IF args.theme \notin DOMAIN THEMES
       THEN /\ Exit("usage", "Unsupported theme")
            /\ UNCHANGED cells
       ELSE LET theme == THEMES[args.theme]
            IN  IF ~RenderAsserts(start_date, today, args.week_start,
                                  theme.colors, theme.reaction_colors)
                THEN /\ Exit("raised", "AssertionError")
                     /\ UNCHANGED cells
                ELSE /\ cells' = render_svg(stats, start_date, today,
                                            args.week_start, theme.colors,
                                            theme.reaction_colors)
                     /\ pc' = "done"
                     /\ outcome' = "ok"
                     /\ reported' = "Saved"
    /\ UNCHANGED <<args, now, today, start_date, source, pos, delivered,
                   resp, requests, earliest_date, items, seen, seen_cursors,
                   cursor, stop, stats, binning>>

\* One call of color_index.
Bin(count) ==
    /\ pc = "color_index"
    /\ binning' = [binning EXCEPT
                      !.called = TRUE,
                      !.count = count,
                      !.idx = color_index(count, binning.max_count,
                                          binning.levels)]
    /\ UNCHANGED <<pc, outcome, reported, args, now, today, start_date,
                   source, pos, delivered, resp, requests, earliest_date,
                   items, seen, seen_cursors, cursor, stop, stats, cells>>

(***************************************************************************)
(* The specifications.                                                     *)
(***************************************************************************)
BaseArgs ==
    [user |-> "kbsooo", days |-> 1, activity_type |-> "all",
     week_start |-> "sunday", theme |-> "light", tz_offset |-> 0,
     max_requests |-> 2]

TzOffsets == {0 - 5, 0, 9}

\* Command lines tried in a whole run: every window length and zone, and
\* each way of getting one option wrong.
RunArgs ==
    {[BaseArgs EXCEPT !.days = d, !.tz_offset = z] :
        d \in 0..MaxDays, z \in TzOffsets}
    \cup {[BaseArgs EXCEPT !.activity_type = "bogus"],
          [BaseArgs EXCEPT !.week_start = "monday"],
          [BaseArgs EXCEPT !.week_start = "tuesday"],
          [BaseArgs EXCEPT !.theme = "github-dark"],
          [BaseArgs EXCEPT !.theme = "neon"],
          [BaseArgs EXCEPT !.user = ""],
          [BaseArgs EXCEPT !.tz_offset = 24]}

\* Times of day 10 the run may start at.
Nows == {24 * 10 + 2, 24 * 10 + 12, 24 * 10 + 23}

NoResp == [batch |-> <<>>, cursor |-> NoCursor]
NoBinning ==
    [called |-> FALSE, count |-> 0, max_count |-> 0, levels |-> 2, idx |-> 0]

IdleMain == outcome = "running" /\ reported = ""
IdleFeed == pos = 0 /\ delivered = <<>> /\ resp = NoResp /\ requests = 0
IdleCollect ==
    /\ items = <<>>
    /\ seen = {}
    /\ seen_cursors = {}
    /\ cursor = NoCursor
    /\ stop = ""
IdleOutput == stats = NoStats /\ cells = <<>>

\* A whole run, from the command line.
Init ==
    /\ pc = "parse_args"
    /\ args \in RunArgs
    /\ now \in Nows
    /\ today = 0
    /\ start_date = 0
    /\ source \in SeqsUpTo(RunEntries, MaxSource)
    /\ earliest_date = 0
    /\ IdleMain /\ IdleFeed /\ IdleCollect /\ IdleOutput
    /\ binning = NoBinning

Next ==
    \/ ParseArgs
    \/ MainStart
    \/ CollectStart
    \/ Collect
    \/ Aggregate
    \/ Render

Spec == Init /\ [][Next]_vars

\* A whole run on every command line, against a feed of one page.
InitMain ==
    /\ pc = "parse_args"
    /\ args \in RunArgs
    /\ now \in Nows
    /\ today = 0
    /\ start_date = 0
    /\ source \in SeqsUpTo({Entry(0, Zulu(24 * 10 + 1), "discussion", "r1")}, 1)
    /\ earliest_date = 0
    /\ IdleMain /\ IdleFeed /\ IdleCollect /\ IdleOutput
    /\ binning = NoBinning

SpecMain == InitMain /\ [][Next]_vars

\* collect_activity alone, at its loop, against any feed.
FetchEntries ==
    {Entry(1, Zulu(24 * 10 + 1), "like", "r1"),
     Entry(1, Zulu(24 * 10 - 30), "discussion", "r1"),
     Entry(2, Zulu(24 * 10 + 1), "like", "r1"),
     Entry(0, Zulu(24 * 10 + 1), "like", "r1"),
     Entry(0, Zulu(24 * 10 + 1), "like", "r2"),
     NonDict}

InitFetch ==
    /\ pc = "collect"
    /\ args \in {[BaseArgs EXCEPT !.max_requests = m] : m \in 0..MaxRequests}
    /\ now = 24 * 10 + 12
    /\ today = LocalDate(now, args.tz_offset)
    /\ start_date = today - (args.days - 1)
    /\ source \in SeqsUpTo(FetchEntries, MaxSource)
    /\ earliest_date = EarliestDate(now, args.tz_offset, args.days)
    /\ IdleMain /\ IdleFeed /\ IdleCollect /\ IdleOutput
    /\ binning = NoBinning

SpecFetch == InitFetch /\ [][Collect]_vars

\* The loop of collect_activity is run to its end.
FairFetch == SpecFetch /\ WF_vars(Collect)

\* aggregate_stats alone, on any list of events.
AggEntries ==
    {Entry(0, Zulu(24 * 9), "discussion", "r1"),
     Entry(0, Zulu(24 * 10 + 23), "like", "r1"),
     Entry(0, Naive(24 * 8 + 23), "upvote", "r1"),
     Entry(0, Offset(24 * 11 + 2, 9), "", "r1"),
     Entry(0, NoTime, "like", "r1"),
     Entry(0, BadTime, "like", "r1")}

InitAgg ==
    /\ pc = "aggregate"
    /\ args \in {[BaseArgs EXCEPT !.days = d, !.tz_offset = z] :
                    d \in 1..MaxDays, z \in TzOffsets}
    /\ now = 24 * 10 + 12
    /\ today = 10
    /\ start_date = today - (args.days - 1)
    /\ source = <<>>
    /\ earliest_date = start_date
    /\ items \in SeqsUpTo(AggEntries, MaxEvents)
    /\ seen = {dedupe_key(items[i]) : i \in 1..Len(items)}
    /\ seen_cursors = {}
    /\ cursor = NoCursor
    /\ stop = "empty"
    /\ IdleMain /\ IdleFeed /\ IdleOutput
    /\ binning = NoBinning

SpecAgg == InitAgg /\ [][Aggregate]_vars

\* render_svg alone.
StartDates == 8..14

DayStats ==
    [count : {1, 3},
     types : {{}, {"like"}, {"upvote", "like"}, {"discussion"},
              {"discussion", "upvote"}}]

StatsOver(dates) ==
    UNION {[S -> DayStats] :
              S \in {T \in SUBSET dates : Cardinality(T) <= MaxStatDays}}

InitRenderWith(lengths, themes) ==
    /\ pc = "render"
    /\ args \in {[BaseArgs EXCEPT !.days = d, !.week_start = w, !.theme = t] :
                    d \in lengths, w \in WEEK_START_CHOICES, t \in themes}
    /\ now = 24 * 10 + 12
    /\ start_date \in StartDates
    /\ today = start_date + (args.days - 1)
    /\ source = <<>>
    /\ earliest_date = start_date
    /\ IdleMain /\ IdleFeed /\ IdleCollect
    /\ cells = <<>>
    /\ binning = NoBinning

InitRender ==
    /\ InitRenderWith(1..MaxDays, DOMAIN THEMES)
    /\ stats \in StatsOver((start_date - 1)..(today + 1))

SpecRender == InitRender /\ [][Render]_vars

\* The grid of render_svg, on windows of up to MaxGridDays days.
InitGrid ==
    /\ InitRenderWith(1..MaxGridDays, {"light"})
    /\ stats = NoStats

SpecGrid == InitGrid /\ [][Render]_vars

\* color_index alone.
InitColor ==
    /\ pc = "color_index"
    /\ args = BaseArgs
    /\ now = 24 * 10 + 12
    /\ today = 10
    /\ start_date = 10
    /\ source = <<>>
    /\ earliest_date = 10
    /\ IdleMain /\ IdleFeed /\ IdleCollect /\ IdleOutput
    /\ binning \in [called : {FALSE}, count : {0}, max_count : (0 - 1)..MaxCount,
                    levels : 2..MaxLevels, idx : {0}]

NextColor == \E count \in (0 - 1)..(MaxCount + 1) : Bin(count)

SpecColor == InitColor /\ [][NextColor]_vars

(***************************************************************************)
(* The properties.                                                         *)
(***************************************************************************)
\* The places of a served sequence whose record is the first with its key.
FirstSeen(d) ==
    {i \in 1..Len(d) :
        /\ d[i].isdict
        /\ \A j \in 1..(i - 1) :
               ~(d[j].isdict /\ dedupe_key(d[j]) = dedupe_key(d[i]))}

\* The k-th smallest member of a set of numbers.
Nth(S, k) == CHOOSE i \in S : Cardinality({j \in S : j <= i}) = k

FirstSeenOf(d) ==
    [k \in 1..Cardinality(FirstSeen(d)) |-> d[Nth(FirstSeen(d), k)]]

\* C1: whatever pages the feed serves (overlapping, with duplicates inside a
\* page), items never holds two events with the same dedupe key, the event
\* kept for a key is the first one served, and items is in the order served.
C1_DedupeFirstSeen ==
    /\ \A i, j \in 1..Len(items) :
           i # j => dedupe_key(items[i]) # dedupe_key(items[j])
    /\ items = FirstSeenOf(delivered)

\* C1 witness: collect_activity returned after overlapping pages that served
\* one key twice, and kept more than one event.
C1_Witness ==
    /\ pc = "aggregate"
    /\ requests >= 2
    /\ Len(items) >= 2
    /\ \E i, j \in 1..Len(delivered) :
           /\ i < j
           /\ delivered[i].isdict /\ delivered[j].isdict
           /\ dedupe_key(delivered[i]) = dedupe_key(delivered[j])

\* C2: a page whose cursor is absent, or was already returned by an earlier
\* page of this fetch, is the last page requested: the loop ends with it, and
\* no request follows the end of the loop.
C2_StopsOnRepeatedCursor ==
    /\ [][(/\ requests' = requests + 1
           /\ (resp'.cursor = NoCursor \/ resp'.cursor \in seen_cursors))
          => pc' # "collect"]_vars
    /\ [][pc # "collect" => requests' = requests]_vars

\* C2 witness: the loop ended on a cursor that an earlier page had returned,
\* with requests still to spare.
C2_Witness ==
    /\ stop = "cursor"
    /\ resp.cursor # NoCursor
    /\ resp.cursor \in seen_cursors
    /\ requests < args.max_requests

\* C3: whatever the feed does, at most max_requests page requests are issued
\* and the loop ends; when it ends on the cap, collect_activity returns
\* normally, with the deduplicated events gathered so far.
C3_RequestCap ==
    /\ [](requests <= args.max_requests)
    /\ <>(pc # "collect")
    /\ [](stop = "cap" =>
            /\ pc = "aggregate"
            /\ outcome = "running"
            /\ reported = ""
            /\ requests = args.max_requests
            /\ items = FirstSeenOf(delivered))

\* C3 witness: the cap ended a fetch of several pages, each non-empty and
\* with a new cursor.
C3_Witness ==
    /\ stop = "cap"
    /\ requests >= 2
    /\ Cardinality(seen_cursors) = requests
    /\ Len(items) >= 1

\* The feed holds valid timestamps in non-increasing order of time.
NewestFirst ==
    /\ \A i \in 1..Len(source) :
           /\ source[i].isdict
           /\ source[i].time # NoTime
           /\ ~ParseFails(source[i].time)
    /\ \A i, j \in 1..Len(source) :
           i < j => UtcHour(source[i].time) >= UtcHour(source[j].time)

\* C4: on a feed in non-increasing time order, when the loop stops on the
\* date check, no event is lost: every record left unserved lies outside the
\* window [start_date, today] that main aggregates over (or is a duplicate of
\* an event already gathered).
C4_EarlyStopLosesNothing ==
    (stop = "date" /\ NewestFirst)
    => \A i \in (pos + 1)..Len(source) :
           \/ ~InWindow(parse_time(source[i].time, args.tz_offset),
                        start_date, today)
           \/ dedupe_key(source[i]) \in seen

\* A record has a timestamp that is not ISO 8601.
Malformed(e) == e.time # NoTime /\ ParseFails(e.time)

WellFormedOf(its) == SelectSeq(its, LAMBDA e : ~Malformed(e))

\* C5: a record with a malformed timestamp is skipped: aggregation goes on,
\* the run does not abort, and the aggregate is that of the list without the
\* record.
C5_MalformedSkipped ==
    (pc # "aggregate" /\ \E i \in 1..Len(items) : Malformed(items[i]))
    => /\ outcome # "raised"
       /\ stats = aggregate_stats(WellFormedOf(items), start_date, today,
                                  args.tz_offset).stats

\* The events of a list that have a timestamp and fall on date d.
EventsOn(its, d, tz) ==
    {i \in 1..Len(its) :
        /\ its[i].time # NoTime
        /\ ~ParseFails(its[i].time)
        /\ parse_time(its[i].time, tz) = d}

\* C6: when aggregate_stats returns, it has an entry for date d exactly when
\* start_date <= d <= today and some event with a timestamp falls on d, and
\* the entry's count is the number of those events, whatever the order of the
\* list.
C6_AggregateExact ==
    pc = "render" =>
        /\ \A d \in DOMAIN stats : start_date <= d /\ d <= today
        /\ \A d \in (start_date - 2)..(today + 2) :
               LET n == Cardinality(EventsOn(items, d, args.tz_offset))
               IN  /\ d \in DOMAIN stats
                       <=> (start_date <= d /\ d <= today /\ n >= 1)
                   /\ d \in DOMAIN stats =>
                          stats[d].count = n /\ stats[d].count >= 1

\* C6 witness: a window of two days with events on both of its bounds, which
\* are counted, and an event one day outside, which is not.
C6_Witness ==
    /\ pc = "render"
    /\ start_date < today
    /\ DOMAIN stats = {start_date, today}
    /\ \E d \in {start_date - 1, today + 1} :
           EventsOn(items, d, args.tz_offset) # {}

\* C7: for every window and both week starts, the grid starts on the
\* configured week-start weekday, at most six days before start_date; every
\* date from the grid start through today has one cell, in order, and the
\* cells' (week, row) pairs are distinct, with 0 <= week < ceil(days / 7),
\* 0 <= row <= 6 and row = (date - grid start) mod 7.
C7_GridLayout ==
    pc = "done" =>
        LET gs == grid_start_date(start_date, args.week_start)
            n == today - gs + 1
        IN  /\ weekday(gs) = (IF args.week_start = "sunday" THEN 6 ELSE 0)
            /\ 0 <= start_date - gs /\ start_date - gs <= 6
            /\ Len(cells) = n
            /\ \A i \in 1..Len(cells) :
                   /\ cells[i].date = gs + i - 1
                   /\ 0 <= cells[i].week
                   /\ 7 * cells[i].week < n
                   /\ cells[i].week < weeks(start_date, today, args.week_start)
                   /\ 0 <= cells[i].row /\ cells[i].row <= 6
                   /\ cells[i].row = (cells[i].date - gs) % 7
            /\ \A i, j \in 1..Len(cells) :
                   i # j => <<cells[i].week, cells[i].row>>
                                # <<cells[j].week, cells[j].row>>

\* C7 witness: a rendered 10-day window that starts in mid-week, so that the
\* grid has padding days and more than one week, for a Sunday week start.
C7_Witness ==
    /\ pc = "done"
    /\ args.days = 10
    /\ args.week_start = "sunday"
    /\ cells[1].date < start_date
    /\ cells[Len(cells)].week >= 1

\* C8: color_index returns a level in 0..levels-1 for levels >= 2; 0 when
\* count <= 0 or max_count <= 0, at least 1 when count >= 1 and
\* max_count >= 1; and for a fixed max_count a call with a larger count never
\* returns a smaller level.
C8_ColorIndex ==
    /\ [](binning.called =>
            /\ 0 <= binning.idx /\ binning.idx <= binning.levels - 1
            /\ (binning.count <= 0 \/ binning.max_count <= 0)
                   => binning.idx = 0
            /\ (binning.count >= 1 /\ binning.max_count >= 1)
                   => binning.idx >= 1)
    /\ [][(binning.called /\ binning'.count >= binning.count)
          => binning'.idx >= binning.idx]_vars

\* C8 witness: a count of 1 against a large maximum gets level 1 of 5.
C8_Witness ==
    /\ binning.called
    /\ binning.count = 1
    /\ binning.max_count >= 5
    /\ binning.levels = 5
    /\ binning.idx = 1

\* A date of the window with a DayStat of positive count.
Active(d) ==
    /\ d \in DOMAIN stats
    /\ start_date <= d /\ d <= today
    /\ stats[d].count > 0

\* C9: render_svg emits one cell per date from the grid start through today;
\* a cell's level is non-zero exactly when its date is in the window and has
\* a DayStat with a positive count; such a cell is filled from the reaction
\* palette when the day's types are non-empty and all in {upvote, like}, and
\* from the default palette otherwise; every other cell shows count 0 with
\* colour 0 of the default palette.
C9_CellColours ==
    pc = "done" =>
        LET gs == grid_start_date(start_date, args.week_start)
            theme == THEMES[args.theme]
        IN  /\ Len(cells) = today - gs + 1
            /\ \A i \in 1..Len(cells) :
                   LET c == cells[i]
                       reaction ==
                           /\ stats[c.date].types # {}
                           /\ stats[c.date].types \subseteq {"upvote", "like"}
                   IN  /\ c.date = gs + i - 1
                       /\ c.idx # 0 <=> Active(c.date)
                       /\ Active(c.date) =>
                              /\ c.count = stats[c.date].count
                              /\ c.idx >= 1
                              /\ c.idx <= Len(theme.colors) - 1
                              /\ c.fill = (IF reaction
                                           THEN theme.reaction_colors[c.idx + 1]
                                           ELSE theme.colors[c.idx + 1])
                       /\ ~Active(c.date) =>
                              /\ c.count = 0
                              /\ c.fill = theme.colors[1]

\* C9 witness: a rendered grid with a padding day that has a DayStat and a
\* day of the window whose types are only reactions, at a non-zero level.
C9_Witness ==
    /\ pc = "done"
    /\ \E i, j \in 1..Len(cells) :
           /\ cells[i].date < start_date
           /\ cells[i].date \in DOMAIN stats
           /\ cells[j].reaction_only
           /\ cells[j].idx > 0

\* What the command line must satisfy.
ConfigValid(a) ==
    /\ a.days >= 1
    /\ a.activity_type \in {"all", "discussion", "upvote", "like"}
    /\ a.week_start \in {"sunday", "monday"}
    /\ a.theme \in DOMAIN THEMES
    /\ Len(THEMES[a.theme].colors) >= 2
    /\ Len(THEMES[a.theme].reaction_colors) >= 2

====
